---------------------------- MODULE Spec2Model ----------------------------
(***************************************************************************)
(* A model of qosst-hal: the optional-dependency guard (need_modules), the *)
(* hardware lister (list_hardware, list_hardware_str) of utils.py and the  *)
(* fake devices of adc.py, dac.py, dacadc.py, laser.py, switch.py, voa.py, *)
(* the meters, powersupply.py, polarisation_controller.py and              *)
(* modulator_bias_control.py.                                              *)
(*                                                                         *)
(* The specifications share the variables:                                 *)
(*   SpecGuard     a guarded class declaration, later constructions, and   *)
(*                 an environment whose installed modules change;          *)
(*   SpecContract  a driver class deriving from a contract class, and its  *)
(*                 construction;                                           *)
(*   SpecRegistry  list_hardware / list_hardware_str over a package tree;  *)
(*   SpecGuardedRegistry  list_hardware over a package that declares a     *)
(*                 guarded class;                                          *)
(*   SpecFakeADC, SpecLoadingADC  every operation of FakeADC and of        *)
(*                 LoadingADC, in any order;                               *)
(*   SpecADCParams set_acquisition_parameters of both, in any order;       *)
(*   SpecConvert   both ADCs, also of classes that override _convert;      *)
(*   SpecFakeDAC   every operation of FakeDAC and of FakeVOA;                *)
(*   SpecLifecycle open and close of FakeDAC, FakeVOA and FakeADC among    *)
(*                 the operations that change their attributes;            *)
(*   SpecFakes     every operation of the fake devices without attributes. *)
(***************************************************************************)
EXTENDS Integers, Sequences, FiniteSets, TLC

VARIABLES
    installed,   \* names find_spec can locate in the current environment
    heap,        \* the class objects; a class's identity is its index
    decl,        \* the guarded class declaration of the importing module
    ret,         \* what the last call did: returned (a value) or raised
    world,       \* the package tree list_hardware inspects
    adc,         \* the FakeADC instance's attributes
    ladc,        \* the LoadingADC instance's attributes
    dac,         \* the FakeDAC instance's attributes
    voa          \* the FakeVOA instance's attributes

vars == <<installed, heap, decl, ret, world, adc, ladc, dac, voa>>

guardVars == <<installed, heap, decl>>
registryVars == <<world>>
fakeVars == <<adc, ladc, dac, voa>>

\* The longest tuple of dependency names handed to need_modules.
MaxModules == 2
\* The most positional arguments a constructor call passes.
MaxArgs == 2

\* The largest acquisition_time a caller sets, in half seconds.
MaxTimeHalves == 2
\* The largest target_rate a caller sets, in Hz.
MaxRate == 1

\* No call has been made yet.
NoCall == [op |-> "none", outcome |-> "none"]

\* Python's None, and a value that is not None.
None == <<>>
Some(v) == <<v>>

\* How a call ends: it returns a value or raises an exception.
Returned(v) == [outcome |-> "returned", exc |-> "", value |-> v]
Raised(e) == [outcome |-> "raised", exc |-> e, value |-> None]

(***************************************************************************)
(* Class objects.                                                          *)
(***************************************************************************)

\* Identities of the classes that exist before any guard is applied.
QOSSTHardwareId == 1
GenericADCId == 2
FakeADCId == 3
GenericVOAId == 4
FakeVOAId == 5

\* ctor: "plain" with the number of positional arguments __init__ takes after
\* self (min, max; max = -1 for *args), "abstract" for a class that still has
\* abstract methods, "raise" for a replacement class.
Class(name, bases, ctor, msg) ==
    [name |-> name, bases |-> bases, ctor |-> ctor, msg |-> msg]

PlainCtor(min, max) == [kind |-> "plain", min |-> min, max |-> max]
AbstractCtor == [kind |-> "abstract", min |-> 0, max |-> -1]
RaiseCtor == [kind |-> "raise", min |-> 0, max |-> -1]

InitialHeap ==
    << Class("QOSSTHardware", <<>>, AbstractCtor, <<>>),
       Class("GenericADC", <<QOSSTHardwareId>>, AbstractCtor, <<>>),
       Class("FakeADC", <<GenericADCId>>, PlainCtor(2, -1), <<>>),
       Class("GenericVOA", <<QOSSTHardwareId>>, AbstractCtor, <<>>),
       Class("FakeVOA", <<GenericVOAId>>, PlainCtor(1, 1), <<>>) >>

\* issubclass(c, k): k is c or an ancestor of c. Bases always have a smaller
\* index than the class (a class is created after its bases).
RECURSIVE issubclass(_, _, _)
issubclass(hp, c, k) ==
    \/ c = k
    \/ \E i \in 1..Len(hp[c].bases) : issubclass(hp, hp[c].bases[i], k)

(***************************************************************************)
(* The optional-dependency guard: need_modules.                            *)
(***************************************************************************)

\* Names a guard may be given: two top-level modules and a submodule.
ModuleNames == {"numpy", "vendor", "vendor.sdk"}

\* The parent package of a dotted name, "" for a top-level name.
ParentOf(name) == IF name = "vendor.sdk" THEN "vendor" ELSE ""

\* An environment never holds a submodule without its parent package.
Environments ==
    {e \in SUBSET ModuleNames :
        \A n \in e : ParentOf(n) = "" \/ ParentOf(n) \in e}

\* importlib.util.find_spec(name): None for a name that is not found; for a
\* dotted name the parent is imported first, and a missing parent raises
\* ModuleNotFoundError.
find_spec(name, env) ==
    IF ParentOf(name) # "" /\ ParentOf(name) \notin env
    THEN [raised |-> TRUE, found |-> FALSE]
    ELSE [raised |-> FALSE, found |-> name \in env]

\* The loop of decorator: res = res and find_spec(module) is not None.
\* `and` short-circuits: once res is False, find_spec is not called again.
\* checked lists the positions find_spec was called on, in call order.
RECURSIVE CheckModulesFrom(_, _, _, _, _)
CheckModulesFrom(modules, env, i, res, checked) ==
    IF i > Len(modules)
    THEN [raised |-> FALSE, res |-> res, checked |-> checked]
    ELSE IF ~res
    THEN CheckModulesFrom(modules, env, i + 1, FALSE, checked)
    ELSE LET fs == find_spec(modules[i], env) IN
         IF fs.raised
         THEN [raised |-> TRUE, res |-> FALSE, checked |-> Append(checked, i)]
         ELSE CheckModulesFrom(modules, env, i + 1, fs.found,
                               Append(checked, i))

\* The same loop with `and` evaluating both sides.
RECURSIVE CheckModulesEager(_, _, _, _, _)
CheckModulesEager(modules, env, i, res, checked) ==
    IF i > Len(modules)
    THEN [raised |-> FALSE, res |-> res, checked |-> checked]
    ELSE LET fs == find_spec(modules[i], env) IN
         IF fs.raised
         THEN [raised |-> TRUE, res |-> FALSE, checked |-> Append(checked, i)]
         ELSE CheckModulesEager(modules, env, i + 1, res /\ fs.found,
                                Append(checked, i))

CheckModulesAll(modules, env) ==
    CheckModulesEager(modules, env, 1, TRUE, <<>>)

CheckModules(modules, env) ==
    CheckModulesFrom(modules, env, 1, TRUE, <<>>)

\* repr of a tuple of str, as the f-string formats {modules}:
\* ('a', 'b'), ('a',) and ().
RECURSIVE TupleItems(_, _)
TupleItems(modules, i) ==
    IF i > Len(modules) THEN <<>>
    ELSE <<"'" \o modules[i] \o "'">>
         \o (IF i < Len(modules) THEN <<", ">> ELSE <<>>)
         \o TupleItems(modules, i + 1)

TupleRepr(modules) ==
    <<"(">> \o TupleItems(modules, 1)
            \o (IF Len(modules) = 1 THEN <<",">> ELSE <<>>) \o <<")">>

\* The TypeError message of ReplacementClass.__init__, as a list of pieces.
ReplacementMessage(name, modules) ==
    <<"You are trying to use the class ", name,
      " which requires the optional modules : ">>
    \o TupleRepr(modules)
    \o <<" and at least one is not installed.">>

\* A replacement that derives from object instead of the guarded class.
ReplacementDetached(hp, initial_class, modules) ==
    Class("ReplacementClass", <<>>, RaiseCtor,
          ReplacementMessage(hp[initial_class].name, modules))

\* class ReplacementClass(initial_class) with the raising __init__.
ReplacementClass(hp, initial_class, modules) ==
    Class("ReplacementClass", <<initial_class>>, RaiseCtor,
          ReplacementMessage(hp[initial_class].name, modules))

\* A guard that replaces the class whether or not a module is missing.
decoratorAlwaysReplaces(modules, initial_class, env, hp) ==
    LET c == CheckModules(modules, env) IN
    IF c.raised
    THEN [outcome |-> "raised", exc |-> "ModuleNotFoundError", heap |-> hp,
          class |-> 0, checked |-> c.checked]
    ELSE [outcome |-> "returned", exc |-> "",
          heap |-> Append(hp, ReplacementClass(hp, initial_class, modules)),
          class |-> Len(hp) + 1, checked |-> c.checked]

\* need_modules(*modules)(initial_class), run in environment env with the
\* class objects hp: the class it returns (or the exception it lets through),
\* the class objects afterwards and the find_spec calls it made.
decorator(modules, initial_class, env, hp) ==
    LET c == CheckModules(modules, env) IN
    IF c.raised
    THEN [outcome |-> "raised", exc |-> "ModuleNotFoundError", heap |-> hp,
          class |-> 0, checked |-> c.checked]
    ELSE IF ~c.res
    THEN [outcome |-> "returned", exc |-> "",
          heap |-> Append(hp, ReplacementClass(hp, initial_class, modules)),
          class |-> Len(hp) + 1, checked |-> c.checked]
    ELSE [outcome |-> "returned", exc |-> "", heap |-> hp,
          class |-> initial_class, checked |-> c.checked]

\* A constructor call's arguments: npos positional ones and keywords kw.
CtorArgs == [npos : 0..MaxArgs, kw : SUBSET {"timeout"}]

\* A replacement __init__ that raises only when called without arguments.
InstantiateLenient(hp, cls, args) ==
    IF hp[cls].ctor.kind = "raise" /\ args.npos = 0 /\ args.kw = {}
    THEN [outcome |-> "raised", exc |-> "TypeError", msg |-> hp[cls].msg,
          checked |-> <<>>]
    ELSE [outcome |-> "returned", exc |-> "", msg |-> <<>>, checked |-> <<>>]

\* A replacement __init__ that looks the modules up again and lets the
\* construction through once they are all found.
InstantiateRechecking(hp, cls, args) ==
    IF /\ hp[cls].ctor.kind = "raise"
       /\ \E i \in DOMAIN decl.modules : decl.modules[i] \notin installed
    THEN [outcome |-> "raised", exc |-> "TypeError", msg |-> hp[cls].msg,
          checked |-> <<>>]
    ELSE [outcome |-> "returned", exc |-> "", msg |-> <<>>, checked |-> <<>>]

\* cls(*args, **kwargs). ReplacementClass.__init__(self, *_args, **_kwargs)
\* raises TypeError whatever it is given; a plain __init__ raises TypeError
\* on a wrong number of positional arguments, and a class that still has
\* abstract methods cannot be instantiated. No find_spec call is made.
Instantiate(hp, cls, args) ==
    IF hp[cls].ctor.kind = "raise"
    THEN [outcome |-> "raised", exc |-> "TypeError", msg |-> hp[cls].msg,
          checked |-> <<>>]
    ELSE IF hp[cls].ctor.kind = "abstract"
    THEN [outcome |-> "raised", exc |-> "TypeError",
          msg |-> <<"Can't instantiate abstract class ", hp[cls].name>>,
          checked |-> <<>>]
    ELSE IF \/ args.npos < hp[cls].ctor.min
            \/ (hp[cls].ctor.max >= 0 /\ args.npos > hp[cls].ctor.max)
    THEN [outcome |-> "raised", exc |-> "TypeError",
          msg |-> <<"__init__() takes a different number of arguments">>,
          checked |-> <<>>]
    ELSE [outcome |-> "returned", exc |-> "", msg |-> <<>>, checked |-> <<>>]

\* The tuples of dependency names a guard is given.
ModuleTuples == UNION {[1..n -> ModuleNames] : n \in 0..MaxModules}

\* The classes a guard is applied to.
InitialClasses == {FakeADCId, FakeVOAId}

\* The module's class statement has not run yet.
NoDecl == [state |-> "none"]

\* @need_modules(*modules) class ...: runs once, when the defining module is
\* imported. state "bound": the name is bound to the returned class;
\* "failed": the decorator raised and the import of the module failed.
\* env records the environment the declaration ran in.
Declare(initial_class, modules) ==
    /\ decl.state = "none"
    /\ LET d == decorator(modules, initial_class, installed, heap) IN
       /\ heap' = d.heap
       /\ decl' = [state |-> IF d.outcome = "returned" THEN "bound"
                                                       ELSE "failed",
                   initial |-> initial_class, modules |-> modules,
                   env |-> installed, class |-> d.class,
                   checked |-> d.checked]
       /\ ret' = [op |-> "need_modules", outcome |-> d.outcome,
                  exc |-> d.exc]
    /\ UNCHANGED <<installed, registryVars, fakeVars>>

\* A caller constructs the guarded class through the name the module bound.
\* env records the environment the construction ran in.
Construct(args) ==
    /\ decl.state = "bound"
    /\ LET r == Instantiate(heap, decl.class, args) IN
       ret' = [op |-> "construct", outcome |-> r.outcome, exc |-> r.exc,
               msg |-> r.msg, args |-> args, checked |-> r.checked,
               env |-> installed]
    /\ UNCHANGED <<guardVars, registryVars, fakeVars>>

\* The environment changes: a module is installed (after its parent).
Install(m) ==
    /\ m \notin installed
    /\ installed \cup {m} \in Environments
    /\ installed' = installed \cup {m}
    /\ UNCHANGED <<heap, decl, ret, registryVars, fakeVars>>

\* The environment changes: a module is removed (before its parent).
Uninstall(m) ==
    /\ m \in installed
    /\ installed \ {m} \in Environments
    /\ installed' = installed \ {m}
    /\ UNCHANGED <<heap, decl, ret, registryVars, fakeVars>>

NextGuard ==
    \/ \E c \in InitialClasses, ms \in ModuleTuples : Declare(c, ms)
    \/ \E a \in CtorArgs : Construct(a)
    \/ \E m \in ModuleNames : Install(m)
    \/ \E m \in ModuleNames : Uninstall(m)

(***************************************************************************)
(* The capability contracts: a driver class deriving from a Generic* class.*)
(***************************************************************************)

\* The abstract methods every contract inherits from QOSSTHardware.
QOSSTHardware_abstractmethods == {"open", "close"}

\* __abstractmethods__ of the classes that exist at import: the methods
\* declared with @abc.abstractmethod and not overridden since. The fakes
\* define them all.
abstractmethods(c) ==
    IF c = QOSSTHardwareId THEN QOSSTHardware_abstractmethods
    ELSE IF c = GenericADCId
    THEN QOSSTHardware_abstractmethods
         \cup {"set_acquisition_parameters", "arm_acquisition",
               "stop_acquisition", "trigger", "get_data"}
    ELSE IF c = GenericVOAId
    THEN QOSSTHardware_abstractmethods \cup {"set_value"}
    ELSE {}

\* A class statement that rejects a class leaving an abstract method
\* undefined.
class_statement_strict(hp, base, defined) ==
    IF abstractmethods(base) \ defined # {}
    THEN [outcome |-> "raised", exc |-> "TypeError", heap |-> hp, class |-> 0]
    ELSE [outcome |-> "returned", exc |-> "",
          heap |-> Append(hp, Class("Driver", <<base>>,
                                    IF base = GenericADCId
                                    THEN hp[FakeADCId].ctor
                                    ELSE hp[FakeVOAId].ctor, <<>>)),
          class |-> Len(hp) + 1]

\* class Driver(base): with the methods of `defined` and an __init__ as the
\* fake of the same contract has. abc.ABCMeta creates the class whatever is
\* defined; a class with abstract methods left cannot be instantiated.
class_statement(hp, base, defined) ==
    [outcome |-> "returned", exc |-> "",
     heap |-> Append(hp, Class("Driver", <<base>>,
                               IF abstractmethods(base) \ defined # {}
                               THEN AbstractCtor
                               ELSE IF base = GenericADCId
                               THEN hp[FakeADCId].ctor
                               ELSE hp[FakeVOAId].ctor, <<>>)),
     class |-> Len(hp) + 1]

\* A module declares a driver class, once. state "defined": the class
\* exists; "rejected": the class statement raised.
DefineDriver(base, defined) ==
    /\ decl.state = "none"
    /\ LET d == class_statement(heap, base, defined) IN
       /\ heap' = d.heap
       /\ decl' = [state |-> IF d.outcome = "returned" THEN "defined"
                                                       ELSE "rejected",
                   initial |-> base, defined |-> defined,
                   class |-> d.class]
       /\ ret' = [op |-> "class", outcome |-> d.outcome, exc |-> d.exc]
    /\ UNCHANGED <<installed, registryVars, fakeVars>>

\* A caller constructs the driver class.
ConstructDriver(args) ==
    /\ decl.state = "defined"
    /\ LET r == Instantiate(heap, decl.class, args) IN
       ret' = [op |-> "construct", outcome |-> r.outcome, exc |-> r.exc,
               msg |-> r.msg, args |-> args, checked |-> r.checked]
    /\ UNCHANGED <<guardVars, registryVars, fakeVars>>

NextContract ==
    \/ \E base \in {GenericADCId, GenericVOAId} :
          \E defined \in SUBSET abstractmethods(base) :
             DefineDriver(base, defined)
    \/ \E a \in CtorArgs : ConstructDriver(a)

(***************************************************************************)
(* The hardware lister: list_hardware and list_hardware_str.               *)
(* A str is a sequence of one-character strings.                           *)
(***************************************************************************)

\* The characters of the names below, in code point order.
Alphabet ==
    <<"A", "C", "D", "F", "G", "H", "O", "Q", "S", "T", "V", "_", "a",
    "c", "d", "e", "g", "h", "i", "k", "l", "n", "o", "p", "r", "s",
    "t", "u", "v", "w", "y">>

CharCode(c) == CHOOSE i \in 1..Len(Alphabet) : Alphabet[i] = c

\* a < b for two str, as Python orders them.
RECURSIVE StrLess(_, _)
StrLess(a, b) ==
    IF b = <<>> THEN FALSE
    ELSE IF a = <<>> THEN TRUE
    ELSE IF Head(a) = Head(b) THEN StrLess(Tail(a), Tail(b))
    ELSE CharCode(Head(a)) < CharCode(Head(b))

\* sorted(names) for a set of distinct str.
RECURSIVE SortNames(_)
SortNames(ns) ==
    IF ns = {} THEN <<>>
    ELSE LET m == CHOOSE x \in ns : \A y \in ns \ {x} : StrLess(x, y)
         IN <<m>> \o SortNames(ns \ {m})

S_adc ==
    <<"a", "d", "c">>
S_voa ==
    <<"v", "o", "a">>
S_utils ==
    <<"u", "t", "i", "l", "s">>
S_hal ==
    <<"h", "a", "l">>
S_ghost ==
    <<"g", "h", "o", "s", "t">>
S_GenericADC ==
    <<"G", "e", "n", "e", "r", "i", "c", "A", "D", "C">>
S_FakeADC ==
    <<"F", "a", "k", "e", "A", "D", "C">>
S_ADC ==
    <<"A", "D", "C">>
S_QOSSTHardware ==
    <<"Q", "O", "S", "S", "T", "H", "a", "r", "d", "w", "a", "r", "e">>
S_np ==
    <<"n", "p">>
S_FakeVOA ==
    <<"F", "a", "k", "e", "V", "O", "A">>
S_Any ==
    <<"A", "n", "y">>
S_list_hardware ==
    <<"l", "i", "s", "t", "_", "h", "a", "r", "d", "w", "a", "r", "e">>

\* An object bound in a module that is not a class (a module, a function).
NotAClass == 0

Binding(name, obj) == [name |-> name, obj |-> obj]

\* The sub-namespaces the package directory may hold, each with the names it
\* may bind: adc.py binds its classes, an alias and the numpy module;
\* voa.py its fake and typing.Any; utils.py imports QOSSTHardware only.
SubNames == {S_adc, S_voa, S_utils}

Candidates(sub) ==
    IF sub = S_adc
    THEN {Binding(S_GenericADC, GenericADCId), Binding(S_FakeADC, FakeADCId),
          Binding(S_ADC, FakeADCId), Binding(S_np, NotAClass)}
    ELSE IF sub = S_voa
    THEN {Binding(S_FakeVOA, FakeVOAId), Binding(S_Any, NotAClass)}
    ELSE {Binding(S_QOSSTHardware, QOSSTHardwareId),
          Binding(S_list_hardware, NotAClass)}

\* A sub-namespace: whether importing it succeeds, and what it binds.
SubModules(sub) ==
    {[import |-> "fails", ns |-> {}]}
    \cup {[import |-> "ok", ns |-> b] :
            b \in IF sub = S_utils THEN {Candidates(sub)}
                                   ELSE SUBSET Candidates(sub)}

\* The package trees: root says whether importing the package succeeds
\* ("ok"), raises ModuleNotFoundError ("missing"), or gives a package
\* without a file location ("nofile"); subs maps the sub-namespaces found in
\* the package directory to their content (none for a missing package).
Worlds ==
    UNION {[root : IF d = {} THEN {"ok", "missing", "nofile"}
                             ELSE {"ok", "nofile"},
            subs : {f \in [d -> UNION {SubModules(x) : x \in d}] :
                        \A x \in d : f[x] \in SubModules(x)}] :
           d \in SUBSET SubNames}

\* The package names a caller asks about; only hal may exist.
PackageNames == {S_hal, S_ghost}

RootStatus(package, w) == IF package = S_hal THEN w.root ELSE "missing"

\* pkgutil.iter_modules([directory]): the names, sorted.
iter_modules(w) == SortNames(DOMAIN w.subs)

\* inspect.getmembers(module): the (name, value) pairs sorted by name.
getmembers(mod) ==
    LET names == SortNames({b.name : b \in mod.ns}) IN
    [i \in 1..Len(names) |->
        CHOOSE b \in mod.ns : b.name = names[i]]

\* The test without the exclusion of QOSSTHardware itself.
IsHardwareOrBase(hp, obj) ==
    /\ obj # NotAClass
    /\ issubclass(hp, obj, QOSSTHardwareId)

\* The test with an exclusion of the classes that still have abstract
\* methods (inspect.isabstract).
IsConcreteHardware(hp, obj) ==
    /\ obj # NotAClass
    /\ issubclass(hp, obj, QOSSTHardwareId)
    /\ obj # QOSSTHardwareId
    /\ hp[obj].ctor.kind # "abstract"

\* inspect.isclass(obj) and issubclass(obj, QOSSTHardware)
\* and obj != QOSSTHardware
IsHardware(hp, obj) ==
    /\ obj # NotAClass
    /\ issubclass(hp, obj, QOSSTHardwareId)
    /\ obj # QOSSTHardwareId

\* The inner loop of list_hardware: the names of the members that pass.
RECURSIVE HardwareNames(_, _, _)
HardwareNames(hp, members, i) ==
    IF i > Len(members) THEN <<>>
    ELSE (IF IsHardware(hp, members[i].obj) THEN <<members[i].name>>
                                            ELSE <<>>)
         \o HardwareNames(hp, members, i + 1)

\* The outer loop of list_hardware from submodule i on, res being the dict
\* built so far (its items in insertion order). An import that fails raises
\* out of the loop.
RECURSIVE ListSubmodules(_, _, _, _, _)
ListSubmodules(hp, w, submodules, i, res) ==
    IF i > Len(submodules)
    THEN [outcome |-> "returned", exc |-> "", value |-> res]
    ELSE LET mod == w.subs[submodules[i]] IN
         IF mod.import = "fails"
         THEN [outcome |-> "raised", exc |-> "ImportError", value |-> <<>>]
         ELSE ListSubmodules(hp, w, submodules, i + 1,
                  Append(res, [key |-> submodules[i],
                               value |-> HardwareNames(hp, getmembers(mod),
                                                       1)]))

\* A lister that swallows every failure and returns an empty dict.
list_hardware_lenient(package, w, hp) ==
    IF RootStatus(package, w) # "ok"
    THEN [outcome |-> "returned", exc |-> "", value |-> <<>>]
    ELSE LET r == ListSubmodules(hp, w, iter_modules(w), 1, <<>>) IN
         IF r.outcome = "raised"
         THEN [outcome |-> "returned", exc |-> "", value |-> <<>>]
         ELSE r

\* A lister that lets the failure to import the package through.
list_hardware_strict(package, w, hp) ==
    IF RootStatus(package, w) = "missing"
    THEN [outcome |-> "raised", exc |-> "ModuleNotFoundError",
          value |-> <<>>]
    ELSE IF RootStatus(package, w) = "nofile"
    THEN [outcome |-> "raised", exc |-> "AssertionError", value |-> <<>>]
    ELSE ListSubmodules(hp, w, iter_modules(w), 1, <<>>)

\* list_hardware(package): ModuleNotFoundError on importing the package gives
\* the empty dict; the assert on __file__ and the imports of the submodules
\* are not guarded.
list_hardware(package, w, hp) ==
    IF RootStatus(package, w) = "missing"
    THEN [outcome |-> "returned", exc |-> "", value |-> <<>>]
    ELSE IF RootStatus(package, w) = "nofile"
    THEN [outcome |-> "raised", exc |-> "AssertionError", value |-> <<>>]
    ELSE ListSubmodules(hp, w, iter_modules(w), 1, <<>>)

HeaderPrefix ==
    <<"H", "a", "r", "d", "w", "a", "r", "e", " ", "o", "f", " ", "p",
    "a", "c", "k", "a", "g", "e", " ">>

\* "-" * n
RECURSIVE Dashes(_)
Dashes(n) == IF n <= 0 THEN <<>> ELSE <<"-">> \o Dashes(n - 1)

\* The inner loop of list_hardware_str: res += f"* {name}\n".
RECURSIVE BulletLines(_, _)
BulletLines(names, i) ==
    IF i > Len(names) THEN <<>>
    ELSE <<"*", " ">> \o names[i] \o <<"\n">> \o BulletLines(names, i + 1)

\* A rendering that does not test whether the list is empty.
RECURSIVE RenderAllFrom(_, _)
RenderAllFrom(items, i) ==
    IF i > Len(items) THEN <<>>
    ELSE items[i].key \o <<"\n">>
         \o Dashes(Len(items[i].key)) \o <<"\n">>
         \o BulletLines(items[i].value, 1) \o <<"\n">>
         \o RenderAllFrom(items, i + 1)

RenderAll(items) == RenderAllFrom(items, 1)

\* The loop of list_hardware_str over hardware.items().
RECURSIVE RenderFrom(_, _)
RenderFrom(items, i) ==
    IF i > Len(items) THEN <<>>
    ELSE (IF items[i].value # <<>>
          THEN items[i].key \o <<"\n">>
               \o Dashes(Len(items[i].key)) \o <<"\n">>
               \o BulletLines(items[i].value, 1) \o <<"\n">>
          ELSE <<>>)
         \o RenderFrom(items, i + 1)

Render(items) == RenderFrom(items, 1)

\* list_hardware_str(package): the header, then the sections; a failure of
\* list_hardware goes through.
list_hardware_str(package, w, hp) ==
    LET hardware == list_hardware(package, w, hp) IN
    IF hardware.outcome = "raised"
    THEN [outcome |-> "raised", exc |-> hardware.exc, value |-> <<>>]
    ELSE [outcome |-> "returned", exc |-> "",
          value |-> HeaderPrefix \o package \o <<"\n", "\n">>
                    \o Render(hardware.value)]

\* A caller runs list_hardware(package).
ListHardware(package) ==
    /\ LET r == list_hardware(package, world, heap) IN
       ret' = [op |-> "list_hardware", package |-> package,
               outcome |-> r.outcome, exc |-> r.exc, value |-> r.value]
    /\ UNCHANGED <<guardVars, registryVars, fakeVars>>

\* A caller runs list_hardware_str(package).
ListHardwareStr(package) ==
    /\ LET r == list_hardware_str(package, world, heap) IN
       ret' = [op |-> "list_hardware_str", package |-> package,
               outcome |-> r.outcome, exc |-> r.exc, value |-> r.value]
    /\ UNCHANGED <<guardVars, registryVars, fakeVars>>

\* A caller runs list_hardware(package) on a package whose sub-namespace
\* (adc for FakeADC, voa for FakeVOA) declares the guarded class. Importing
\* the sub-namespace gives the module already imported when the declaration
\* returned; after a declaration that raised, the import runs the class
\* statement again, in the current environment, and fails if it raises.
ListGuardedHardware(package) ==
    /\ decl.state \in {"bound", "failed"}
    /\ LET again == decl.state = "failed"
           d == decorator(decl.modules, decl.initial, installed, heap)
           imported == ~again \/ d.outcome = "returned"
           class == IF again THEN d.class ELSE decl.class
           hp == IF again THEN d.heap ELSE heap
           sub == IF decl.initial = FakeADCId THEN S_adc ELSE S_voa
           ns == IF decl.initial = FakeADCId
                 THEN {Binding(S_FakeADC, class),
                       Binding(S_GenericADC, GenericADCId),
                       Binding(S_np, NotAClass)}
                 ELSE {Binding(S_FakeVOA, class), Binding(S_Any, NotAClass)}
           w == [root |-> "ok",
                 subs |-> (sub :> IF imported
                                  THEN [import |-> "ok", ns |-> ns]
                                  ELSE [import |-> "fails", ns |-> {}])]
           r == list_hardware(package, w, hp)
       IN /\ heap' = hp
          /\ decl' = IF again
                     THEN [decl EXCEPT !.state = IF imported THEN "bound"
                                                             ELSE "failed",
                                       !.env = installed,
                                       !.class = d.class,
                                       !.checked = d.checked]
                     ELSE decl
          /\ ret' = [op |-> "list_hardware", package |-> package,
                     outcome |-> r.outcome, exc |-> r.exc, value |-> r.value]
    /\ UNCHANGED <<installed, registryVars, fakeVars>>

\* A module declaring a guarded class, an environment that changes, and
\* list_hardware on the package of the module.
NextGuardedRegistry ==
    \/ \E c \in InitialClasses, ms \in ModuleTuples : Declare(c, ms)
    \/ \E m \in ModuleNames : Install(m)
    \/ \E m \in ModuleNames : Uninstall(m)
    \/ ListGuardedHardware(S_hal)

NextRegistry ==
    \/ \E p \in PackageNames : ListHardware(p)
    \/ \E p \in PackageNames : ListHardwareStr(p)

(***************************************************************************)
(* The fake analog to digital converters of adc.py.                        *)
(***************************************************************************)

\* The channel lists an ADC is constructed with.
ChannelLists == {<<>>, <<"I">>, <<"I", "Q">>}

\* acquisition_time is counted in half seconds (1 is 0.5 s), target_rate in
\* Hz, so that acquisition_time * target_rate need not be whole.
TimeValues == 0..MaxTimeHalves
RateValues == 0..MaxRate

\* The keyword bags given to FakeADC.set_acquisition_parameters.
\* gain is a key the class does not know.
ADCKeys == {"acquisition_time", "target_rate", "gain"}
ADCKeyValues(key) ==
    IF key = "acquisition_time" THEN TimeValues
    ELSE IF key = "target_rate" THEN RateValues
    ELSE {1}
ADCKwargs ==
    UNION {{kw \in [K -> TimeValues \cup RateValues] :
                \A k \in K : kw[k] \in ADCKeyValues(k)} :
           K \in SUBSET ADCKeys}

\* kwargs.get(key, default)
KwGet(kwargs, key, default) ==
    IF key \in DOMAIN kwargs THEN kwargs[key] ELSE default

\* A constructor that also sets the acquisition parameters to 0.
FakeADC_init_defaults(channels) ==
    [channels |-> channels, has_params |-> TRUE,
     acquisition_time |-> 0, target_rate |-> 0]

\* FakeADC.__init__(_dev_id, channels): only channels is assigned; the
\* attributes acquisition_time and target_rate do not exist yet (has_params).
FakeADC_init(channels) ==
    [channels |-> channels, has_params |-> FALSE,
     acquisition_time |-> 0, target_rate |-> 0]

\* A setter that leaves an attribute as it is when its key is not given.
FakeADC_set_acquisition_parameters_keep(self, kwargs) ==
    [self EXCEPT !.has_params = TRUE,
                 !.acquisition_time =
                     KwGet(kwargs, "acquisition_time", self.acquisition_time),
                 !.target_rate =
                     KwGet(kwargs, "target_rate", self.target_rate)]

\* FakeADC.set_acquisition_parameters(**kwargs) with
\* _set_acquisition_parameters: both attributes are assigned, a missing key
\* as 0, any other key ignored.
FakeADC_set_acquisition_parameters(self, kwargs) ==
    [self EXCEPT !.has_params = TRUE,
                 !.acquisition_time = KwGet(kwargs, "acquisition_time", 0),
                 !.target_rate = KwGet(kwargs, "target_rate", 0)]

\* self._convert(data): the _convert of the class of self. FakeADC and
\* LoadingADC define it as the identity (inherited, below); a class deriving
\* from one of them may override the hook, and an instance with the
\* attribute calibration stands for one of a class whose _convert returns
\* self.calibration * data.
self_convert(self, data, inherited) ==
    IF "calibration" \in DOMAIN self
    THEN [i \in DOMAIN data |-> self.calibration * data[i]]
    ELSE inherited

\* FakeADC._convert(data): the data itself.
FakeADC_convert(data) == data

\* The variances a caller passes as var, each a perfect square.
VarValues == {0, 1}
Sqrt(v) == CHOOSE s \in 0..v : s * s = v

\* What the standard normal generator may draw for one sample.
ZValues == {-1, 1}

\* The product rounded to the nearest integer instead of truncated.
SampleCountRounded(self) ==
    (self.acquisition_time * self.target_rate + 1) \div 2

\* int(self.acquisition_time * self.target_rate)
SampleCount(self) == (self.acquisition_time * self.target_rate) \div 2

\* A generator that ignores the scale it is given.
NormalUnscaled(scale, draw) == draw

\* np.random.normal(loc=0.0, scale, size): each sample is scale times a
\* standard draw.
Normal(scale, draw) == [i \in DOMAIN draw |-> scale * draw[i]]

\* FakeADC.get_data(**kwargs), draws[c] being what the generator draws for
\* the c-th channel. Reading self.acquisition_time before any
\* set_acquisition_parameters raises AttributeError.
FakeADC_get_data(self, kwargs, draws) ==
    LET var == KwGet(kwargs, "var", 1) IN
    IF ~self.has_params /\ self.channels # <<>>
    THEN Raised("AttributeError")
    ELSE Returned([c \in 1..Len(self.channels) |->
                      LET raw == Normal(Sqrt(var), draws[c]) IN
                      self_convert(self, raw, FakeADC_convert(raw))])

\* The draws of one get_data call: one array of SampleCount per channel.
Draws(self) ==
    [1..Len(self.channels) ->
        [1..(IF self.has_params THEN SampleCount(self) ELSE 0) -> ZValues]]

\* The files a LoadingADC is pointed at, and the array np.load gives for
\* each; gone.npy does not exist.
Paths == {"i.npy", "q.npy", "gone.npy"}
FileExists(path) == path # "gone.npy"
FileContent(path) == IF path = "i.npy" THEN <<1, 2>> ELSE <<3>>

PathLists ==
    {<<>>, <<"i.npy">>, <<"i.npy", "q.npy">>, <<"q.npy", "i.npy">>,
     <<"gone.npy">>}

\* The keyword bags given to LoadingADC.set_acquisition_parameters.
\* gain is a key the class does not know.
LoadingKwargs ==
    UNION {{kw \in [K -> PathLists] :
                \A k \in K : k = "gain" => kw[k] = <<>>} :
           K \in SUBSET {"paths", "gain"}}

\* LoadingADC.__init__(_dev_id, channels): only channels is assigned; the
\* attributes paths and data do not exist yet (has_paths, has_data).
LoadingADC_init(channels) ==
    [channels |-> channels, has_paths |-> FALSE, paths |-> <<>>,
     has_data |-> FALSE, data |-> <<>>]

\* LoadingADC.set_acquisition_parameters(**kwargs) with
\* _set_acquisition_parameters.
LoadingADC_set_acquisition_parameters(self, kwargs) ==
    [self EXCEPT !.has_paths = TRUE,
                 !.paths = KwGet(kwargs, "paths", <<>>)]

\* A conversion that rescales the samples.
LoadingADC_convert_scaled(data) == [i \in DOMAIN data |-> 2 * data[i]]

\* LoadingADC._convert(data): the data itself.
LoadingADC_convert(data) == data

\* LoadingADC.trigger(): self.data = [np.load(path) for path in self.paths].
\* Reading self.paths before it is set raises AttributeError; np.load of a
\* file that does not exist raises FileNotFoundError.
LoadingADC_trigger(self) ==
    IF ~self.has_paths
    THEN [self |-> self, result |-> Raised("AttributeError")]
    ELSE IF \E i \in 1..Len(self.paths) : ~FileExists(self.paths[i])
    THEN [self |-> self, result |-> Raised("FileNotFoundError")]
    ELSE [self |-> [self EXCEPT !.has_data = TRUE,
                       !.data = [i \in 1..Len(self.paths) |->
                                    FileContent(self.paths[i])]],
          result |-> Returned(None)]

\* A get_data that reads the files of the current paths when it is called.
LoadingADC_get_data_lazy(self) ==
    IF ~self.has_paths
    THEN Raised("AttributeError")
    ELSE IF \E i \in 1..Len(self.paths) : ~FileExists(self.paths[i])
    THEN Raised("FileNotFoundError")
    ELSE Returned([i \in 1..Len(self.paths) |-> FileContent(self.paths[i])])

\* A get_data that converts what the load has already converted.
LoadingADC_get_data_twice(self) ==
    IF ~self.has_data
    THEN Raised("AttributeError")
    ELSE Returned([i \in 1..Len(self.data) |->
                      LET once == self_convert(self, self.data[i],
                                      LoadingADC_convert(self.data[i])) IN
                      self_convert(self, once, LoadingADC_convert(once))])

\* LoadingADC.get_data(): reading self.data before any trigger raises
\* AttributeError.
LoadingADC_get_data(self) ==
    IF ~self.has_data
    THEN Raised("AttributeError")
    ELSE Returned([i \in 1..Len(self.data) |->
                      self_convert(self, self.data[i],
                                   LoadingADC_convert(self.data[i]))])

\* The operations of both ADC classes that do nothing.
ADCNoOps == {"open", "close", "arm_acquisition", "stop_acquisition"}

\* The record of a device call: the operation, its arguments and how it
\* ended, with the same three of the call made just before it (prev).
NoPrev == [op |-> "none", args |-> None, outcome |-> "none"]

Call(op, args, result) ==
    [op |-> op, args |-> args, outcome |-> result.outcome,
     exc |-> result.exc, value |-> result.value,
     prev |-> IF ret.op = "none" THEN NoPrev
              ELSE [op |-> ret.op, args |-> ret.args,
                    outcome |-> ret.outcome]]

FakeADCNoOp(op) ==
    /\ ret' = Call("FakeADC." \o op, None, Returned(None))
    /\ UNCHANGED <<guardVars, registryVars, fakeVars>>

FakeADCTrigger ==
    /\ ret' = Call("FakeADC.trigger", None, Returned(None))
    /\ UNCHANGED <<guardVars, registryVars, fakeVars>>

FakeADCSetAcquisitionParameters(kwargs) ==
    /\ adc' = FakeADC_set_acquisition_parameters(adc, kwargs)
    /\ ret' = Call("FakeADC.set_acquisition_parameters", kwargs,
                   Returned(None))
    /\ UNCHANGED <<guardVars, registryVars, ladc, dac, voa>>

FakeADCGetData(kwargs, draws) ==
    /\ ret' = Call("FakeADC.get_data", kwargs,
                   FakeADC_get_data(adc, kwargs, draws))
    /\ UNCHANGED <<guardVars, registryVars, fakeVars>>

LoadingADCNoOp(op) ==
    /\ ret' = Call("LoadingADC." \o op, None, Returned(None))
    /\ UNCHANGED <<guardVars, registryVars, fakeVars>>

LoadingADCSetAcquisitionParameters(kwargs) ==
    /\ ladc' = LoadingADC_set_acquisition_parameters(ladc, kwargs)
    /\ ret' = Call("LoadingADC.set_acquisition_parameters", kwargs,
                   Returned(None))
    /\ UNCHANGED <<guardVars, registryVars, adc, dac, voa>>

LoadingADCTrigger ==
    /\ LET t == LoadingADC_trigger(ladc) IN
       /\ ladc' = t.self
       /\ ret' = Call("LoadingADC.trigger", None, t.result)
    /\ UNCHANGED <<guardVars, registryVars, adc, dac, voa>>

LoadingADCGetData ==
    /\ ret' = Call("LoadingADC.get_data", None, LoadingADC_get_data(ladc))
    /\ UNCHANGED <<guardVars, registryVars, fakeVars>>

NextFakeADC ==
    \/ \E op \in ADCNoOps : FakeADCNoOp(op)
    \/ FakeADCTrigger
    \/ \E kw \in ADCKwargs : FakeADCSetAcquisitionParameters(kw)
    \/ \E kw \in {<<>>} \cup {[var |-> v] : v \in VarValues},
          d \in Draws(adc) : FakeADCGetData(kw, d)

NextLoadingADC ==
    \/ \E op \in ADCNoOps : LoadingADCNoOp(op)
    \/ \E kw \in LoadingKwargs : LoadingADCSetAcquisitionParameters(kw)
    \/ LoadingADCTrigger
    \/ LoadingADCGetData

\* Callers that only set the acquisition parameters of the two ADCs.
NextADCParams ==
    \/ \E kw \in ADCKwargs : FakeADCSetAcquisitionParameters(kw)
    \/ \E kw \in LoadingKwargs : LoadingADCSetAcquisitionParameters(kw)

\* Callers that configure both ADCs, trigger and read them.
NextConvert ==
    \/ \E kw \in {k \in ADCKwargs :
                     DOMAIN k = {"acquisition_time", "target_rate"}} :
          FakeADCSetAcquisitionParameters(kw)
    \/ \E kw \in {<<>>} \cup {[var |-> v] : v \in VarValues},
          d \in Draws(adc) : FakeADCGetData(kw, d)
    \/ \E kw \in {k \in LoadingKwargs : DOMAIN k = {"paths"}} :
          LoadingADCSetAcquisitionParameters(kw)
    \/ LoadingADCTrigger
    \/ LoadingADCGetData

(***************************************************************************)
(* The other fake devices.                                                 *)
(***************************************************************************)

\* The per-channel data a caller loads into a DAC.
DataLists == {<<>>, <<<<1, 2>>>>, <<<<1>>, <<3>>>>}

\* FakeDAC.__init__: no data, emission False.
FakeDAC_init == [emission |-> FALSE, data |-> None]

\* A load_data that also stops the emission.
FakeDAC_load_data_stopping(self, data) ==
    [self EXCEPT !.data = Some(data), !.emission = FALSE]

\* FakeDAC.load_data(data)
FakeDAC_load_data(self, data) == [self EXCEPT !.data = Some(data)]

\* FakeDAC.start_emission()
FakeDAC_start_emission(self) == [self EXCEPT !.emission = TRUE]

\* FakeDAC.stop_emission()
FakeDAC_stop_emission(self) == [self EXCEPT !.emission = FALSE]

\* The values a caller sets on a VOA; FakeVOA.__init__ sets 0.0.
VOAValues == {0, 1, 2}
FakeVOA_init == [value |-> 0]

\* FakeVOA.set_value(value)
FakeVOA_set_value(self, value) == [self EXCEPT !.value = value]

\* FakePowerMeter.read() returns 1e-6: the decimal mant * 10^exp.
Decimal(mant, exp) == [mant |-> mant, exp |-> exp]

\* PolarisationControllerChannel
PolarisationControllerChannel == {"QWP_1", "HWP", "QWP_2"}

\* The states a caller commands a switch to.
SwitchStates == {0, 1, 5}

\* The operations of the devices that hold no attribute, and what each
\* returns; every one of them ignores its arguments.
FakeDACADC(op) ==
    IF op = "get_adc_data" THEN Returned(Some(<<>>)) ELSE Returned(None)
FakeDACADCOps ==
    {"open", "close", "set_parameters", "load_dac_data", "get_adc_data",
     "start", "stop"}

FakeLaser(op) == Returned(None)
FakeLaserOps == {"open", "close", "set_parameters", "enable", "disable"}

\* A switch that remembers the state of the set_state call it just got.
FakeSwitchCached(op) ==
    IF op = "read_state"
    THEN Returned(IF ret.op = "FakeSwitch.set_state" THEN ret.args
                                                     ELSE Some(0))
    ELSE Returned(None)

FakeSwitch(op) ==
    IF op = "read_state" THEN Returned(Some(0)) ELSE Returned(None)
FakeSwitchOps == {"open", "close", "set_state", "read_state"}

FakeVoltMeter(op) ==
    IF op = "get_voltage" THEN Returned(Some(0)) ELSE Returned(None)
FakeVoltMeterOps == {"open", "close", "get_voltage"}

FakeAmpereMeter(op) ==
    IF op = "get_current" THEN Returned(Some(0)) ELSE Returned(None)
FakeAmpereMeterOps == {"open", "close", "get_current"}

FakePowerMeter(op) ==
    IF op = "read" THEN Returned(Some(Decimal(1, -6))) ELSE Returned(None)
FakePowerMeterOps == {"open", "close", "read"}

FakePowerSupply(op) == Returned(None)
FakePowerSupplyOps ==
    {"open", "close", "set_voltage", "set_intensity", "output"}

\* A controller whose position follows the move it just made.
FakePolarisationControllerMoved(op) ==
    IF op = "get_position"
    THEN Returned(Some(IF ret.op \in {"FakePolarisationController.move_by",
                                      "FakePolarisationController.move_to"}
                       THEN 1 ELSE 0))
    ELSE Returned(None)

FakePolarisationController(op) ==
    IF op = "get_position" THEN Returned(Some(0)) ELSE Returned(None)
FakePolarisationControllerOps ==
    {"open", "close", "move_by", "move_to", "home", "get_position"}

FakeModulatorBiasController(op) == Returned(None)
FakeModulatorBiasControllerOps == {"open", "close", "lock"}

\* The arguments of the calls above that take one.
OpArgs(op) ==
    IF op = "set_state" THEN {Some(x) : x \in SwitchStates}
    ELSE IF op \in {"move_by", "move_to", "get_position"}
    THEN {Some(c) : c \in PolarisationControllerChannel}
    ELSE IF op = "load_dac_data" THEN {Some(d) : d \in DataLists}
    ELSE {None}

\* A close that also stops the emission.
FakeDACNoOpClosing(op) ==
    /\ dac' = IF op = "close" THEN FakeDAC_stop_emission(dac) ELSE dac
    /\ ret' = Call("FakeDAC." \o op, None, Returned(None))
    /\ UNCHANGED <<guardVars, registryVars, adc, ladc, voa>>

FakeDACNoOp(op) ==
    /\ ret' = Call("FakeDAC." \o op, None, Returned(None))
    /\ UNCHANGED <<guardVars, registryVars, fakeVars>>

FakeDACLoadData(data) ==
    /\ dac' = FakeDAC_load_data(dac, data)
    /\ ret' = Call("FakeDAC.load_data", Some(data), Returned(None))
    /\ UNCHANGED <<guardVars, registryVars, adc, ladc, voa>>

FakeDACStartEmission ==
    /\ dac' = FakeDAC_start_emission(dac)
    /\ ret' = Call("FakeDAC.start_emission", None, Returned(None))
    /\ UNCHANGED <<guardVars, registryVars, adc, ladc, voa>>

FakeDACStopEmission ==
    /\ dac' = FakeDAC_stop_emission(dac)
    /\ ret' = Call("FakeDAC.stop_emission", None, Returned(None))
    /\ UNCHANGED <<guardVars, registryVars, adc, ladc, voa>>

FakeVOANoOp(op) ==
    /\ ret' = Call("FakeVOA." \o op, None, Returned(None))
    /\ UNCHANGED <<guardVars, registryVars, fakeVars>>

FakeVOASetValue(value) ==
    /\ voa' = FakeVOA_set_value(voa, value)
    /\ ret' = Call("FakeVOA.set_value", Some(value), Returned(None))
    /\ UNCHANGED <<guardVars, registryVars, adc, ladc, dac>>

FakeDACADCCall(op, arg) ==
    /\ ret' = Call("FakeDACADC." \o op, arg, FakeDACADC(op))
    /\ UNCHANGED <<guardVars, registryVars, fakeVars>>

FakeLaserCall(op, arg) ==
    /\ ret' = Call("FakeLaser." \o op, arg, FakeLaser(op))
    /\ UNCHANGED <<guardVars, registryVars, fakeVars>>

FakeSwitchCall(op, arg) ==
    /\ ret' = Call("FakeSwitch." \o op, arg, FakeSwitch(op))
    /\ UNCHANGED <<guardVars, registryVars, fakeVars>>

FakeVoltMeterCall(op, arg) ==
    /\ ret' = Call("FakeVoltMeter." \o op, arg, FakeVoltMeter(op))
    /\ UNCHANGED <<guardVars, registryVars, fakeVars>>

FakeAmpereMeterCall(op, arg) ==
    /\ ret' = Call("FakeAmpereMeter." \o op, arg, FakeAmpereMeter(op))
    /\ UNCHANGED <<guardVars, registryVars, fakeVars>>

FakePowerMeterCall(op, arg) ==
    /\ ret' = Call("FakePowerMeter." \o op, arg, FakePowerMeter(op))
    /\ UNCHANGED <<guardVars, registryVars, fakeVars>>

FakePowerSupplyCall(op, arg) ==
    /\ ret' = Call("FakePowerSupply." \o op, arg, FakePowerSupply(op))
    /\ UNCHANGED <<guardVars, registryVars, fakeVars>>

FakePolarisationControllerCall(op, arg) ==
    /\ ret' = Call("FakePolarisationController." \o op, arg,
                   FakePolarisationController(op))
    /\ UNCHANGED <<guardVars, registryVars, fakeVars>>

FakeModulatorBiasControllerCall(op, arg) ==
    /\ ret' = Call("FakeModulatorBiasController." \o op, arg,
                   FakeModulatorBiasController(op))
    /\ UNCHANGED <<guardVars, registryVars, fakeVars>>

\* The devices that hold attributes: FakeDAC and FakeVOA.
NextFakeDAC ==
    \/ \E op \in {"open", "close", "set_emission_parameters"} :
          FakeDACNoOp(op)
    \/ \E d \in DataLists : FakeDACLoadData(d)
    \/ FakeDACStartEmission
    \/ FakeDACStopEmission
    \/ \E op \in {"open", "close"} : FakeVOANoOp(op)
    \/ \E v \in VOAValues : FakeVOASetValue(v)

\* Callers that open and close FakeDAC, FakeVOA and FakeADC between the
\* calls that change their attributes.
NextLifecycle ==
    \/ \E op \in {"open", "close"} : FakeDACNoOp(op)
    \/ \E d \in DataLists : FakeDACLoadData(d)
    \/ FakeDACStartEmission
    \/ \E op \in {"open", "close"} : FakeVOANoOp(op)
    \/ \E v \in VOAValues : FakeVOASetValue(v)
    \/ \E op \in {"open", "close"} : FakeADCNoOp(op)
    \/ \E kw \in {k \in ADCKwargs : "gain" \notin DOMAIN k} :
          FakeADCSetAcquisitionParameters(kw)

\* The devices that hold none.
NextFakes ==
    \/ \E op \in FakeDACADCOps : \E a \in OpArgs(op) : FakeDACADCCall(op, a)
    \/ \E op \in FakeLaserOps : \E a \in OpArgs(op) : FakeLaserCall(op, a)
    \/ \E op \in FakeSwitchOps : \E a \in OpArgs(op) : FakeSwitchCall(op, a)
    \/ \E op \in FakeVoltMeterOps : \E a \in OpArgs(op) :
          FakeVoltMeterCall(op, a)
    \/ \E op \in FakeAmpereMeterOps : \E a \in OpArgs(op) :
          FakeAmpereMeterCall(op, a)
    \/ \E op \in FakePowerMeterOps : \E a \in OpArgs(op) :
          FakePowerMeterCall(op, a)
    \/ \E op \in FakePowerSupplyOps : \E a \in OpArgs(op) :
          FakePowerSupplyCall(op, a)
    \/ \E op \in FakePolarisationControllerOps : \E a \in OpArgs(op) :
          FakePolarisationControllerCall(op, a)
    \/ \E op \in FakeModulatorBiasControllerOps : \E a \in OpArgs(op) :
          FakeModulatorBiasControllerCall(op, a)

(***************************************************************************)
(* The specifications.                                                     *)
(***************************************************************************)

\* After import and construction: no guarded class declared yet, any
\* environment, any package tree, every device freshly constructed.
Init ==
    /\ installed \in Environments
    /\ heap = InitialHeap
    /\ decl = NoDecl
    /\ ret = NoCall
    /\ world \in Worlds
    /\ adc \in {FakeADC_init(c) : c \in ChannelLists}
    /\ ladc \in {LoadingADC_init(c) : c \in ChannelLists}
    /\ dac = FakeDAC_init
    /\ voa = FakeVOA_init

\* One package tree, one environment: what each specification holds fixed.
FixedWorld == [root |-> "ok", subs |-> <<>>]

InitGuard ==
    Init /\ world = FixedWorld /\ adc = FakeADC_init(<<>>)
         /\ ladc = LoadingADC_init(<<>>)

InitRegistry ==
    Init /\ installed = {} /\ adc = FakeADC_init(<<>>)
         /\ ladc = LoadingADC_init(<<>>)

InitFakeADC ==
    Init /\ installed = {} /\ world = FixedWorld
         /\ ladc = LoadingADC_init(<<>>)

InitLoadingADC ==
    Init /\ installed = {} /\ world = FixedWorld
         /\ adc = FakeADC_init(<<>>)

InitADCParams == Init /\ installed = {} /\ world = FixedWorld

\* Two-channel ADCs, each of its class or of a class deriving from it that
\* overrides _convert with a calibration of 2.
InitConvert ==
    /\ installed = {}
    /\ heap = InitialHeap
    /\ decl = NoDecl
    /\ ret = NoCall
    /\ world = FixedWorld
    /\ dac = FakeDAC_init
    /\ voa = FakeVOA_init
    /\ adc \in {FakeADC_init(<<"I", "Q">>),
                 FakeADC_init(<<"I", "Q">>) @@ [calibration |-> 2]}
    /\ ladc \in {LoadingADC_init(<<"I", "Q">>),
                  LoadingADC_init(<<"I", "Q">>) @@ [calibration |-> 2]}

InitFakes ==
    Init /\ installed = {} /\ world = FixedWorld
         /\ adc = FakeADC_init(<<>>) /\ ladc = LoadingADC_init(<<>>)

SpecGuard == InitGuard /\ [][NextGuard]_vars
SpecADCParams == InitADCParams /\ [][NextADCParams]_vars
SpecConvert == InitConvert /\ [][NextConvert]_vars
SpecContract == InitFakes /\ [][NextContract]_vars
SpecGuardedRegistry == InitGuard /\ [][NextGuardedRegistry]_vars
SpecRegistry == InitRegistry /\ [][NextRegistry]_vars
SpecFakeADC == InitFakeADC /\ [][NextFakeADC]_vars
SpecLoadingADC == InitLoadingADC /\ [][NextLoadingADC]_vars
SpecFakeDAC == InitFakes /\ [][NextFakeDAC]_vars
SpecLifecycle == InitFakeADC /\ [][NextLifecycle]_vars
SpecFakes == InitFakes /\ [][NextFakes]_vars

(***************************************************************************)
(* The claims.                                                             *)
(***************************************************************************)

Range(seq) == {seq[i] : i \in DOMAIN seq}

\* The names given to the guard that could not be found when it ran.
MissingAtDecl == Range(decl.modules) \ decl.env

\* C1 (as claimed): every operation of every fake device returns without
\* raising, in whatever order the operations are called after construction.
C1_FakesNeverRaise == ret.outcome # "raised"

\* C2: when a name given to need_modules was unavailable at decoration time,
\* the class the decorator returned is a substitute; constructing it raises
\* TypeError for every combination of positional and keyword arguments, and
\* the message holds the quoted name of each unavailable dependency.
C2_SubstituteAlwaysRaises ==
    (decl.state = "bound" /\ MissingAtDecl # {}) =>
        /\ decl.class # decl.initial
        /\ decl.class \notin DOMAIN InitialHeap
        /\ heap[decl.class].name = "ReplacementClass"
        /\ ret.op = "construct" =>
              /\ ret.outcome = "raised"
              /\ ret.exc = "TypeError"
              /\ \A m \in MissingAtDecl : ("'" \o m \o "'") \in Range(ret.msg)

\* C2's case: a substitute was constructed with both positional and keyword
\* arguments, and the call raised.
C2_Witness ==
    /\ decl.state = "bound"
    /\ MissingAtDecl # {}
    /\ ret.op = "construct"
    /\ ret.args.npos > 0
    /\ ret.args.kw # {}
    /\ ret.outcome = "raised"

\* C3: when every name given to need_modules was available at decoration
\* time (also when no name was given), the decorator returns the class object
\* it was given and creates no class, so that constructing the guarded class
\* ends as constructing the undecorated class does.
C3_AllAvailableReturnsOriginal ==
    (decl.state # "none" /\ MissingAtDecl = {}) =>
        /\ decl.state = "bound"
        /\ decl.class = decl.initial
        /\ heap = InitialHeap
        /\ ret.op = "construct" =>
              LET r == Instantiate(InitialHeap, decl.initial, ret.args) IN
              /\ ret.outcome = r.outcome
              /\ ret.exc = r.exc
              /\ ret.msg = r.msg

\* C3's case: a guard with names, all available, and a construction of the
\* guarded class that succeeded.
C3_Witness ==
    /\ decl.state = "bound"
    /\ decl.modules # <<>>
    /\ MissingAtDecl = {}
    /\ ret.op = "construct"
    /\ ret.outcome = "returned"

\* C4 (as claimed): applying the guard never fails at declaration time,
\* whatever names are given and whichever are unavailable: the decorator
\* always returns a class.
C4_DeclarationNeverFails ==
    /\ decl.state # "failed"
    /\ ret.op = "need_modules" => ret.outcome = "returned"

\* C5 (as claimed): a guard that returned a class has checked the
\* availability of each of the names it was given exactly once, at
\* declaration time, and no construction checks any.
C5_EachCheckedExactlyOnce ==
    /\ decl.state = "bound" =>
          decl.checked = [i \in 1..Len(decl.modules) |-> i]
    /\ ret.op = "construct" => ret.checked = <<>>

\* The position of the first name that was unavailable when the guard ran;
\* the number of names when all were available.
FirstMissing ==
    IF MissingAtDecl = {} THEN Len(decl.modules)
    ELSE CHOOSE i \in 1..Len(decl.modules) :
            /\ decl.modules[i] \notin decl.env
            /\ \A j \in 1..(i - 1) : decl.modules[j] \in decl.env

\* C5 (amended): the names are checked in the order given, each at most once
\* and all at declaration time; the check stops at the first name that is
\* unavailable, so the names after it are not checked; no construction
\* checks any.
C5_CheckedInOrderUntilFirstMissing ==
    /\ decl.state # "none" =>
          decl.checked = [i \in 1..FirstMissing |-> i]
    /\ ret.op = "construct" => ret.checked = <<>>

\* C5's case: a guard given two names, the first unavailable, has checked
\* the first only, and the substitute was then constructed.
C5_Witness ==
    /\ decl.state = "bound"
    /\ Len(decl.modules) = 2
    /\ decl.modules[1] \notin decl.env
    /\ decl.checked = <<1>>
    /\ ret.op = "construct"

\* C6: the substitute is a subclass of the class the guard was given, so
\* every class the original is a subclass of has the substitute as a
\* subclass too.
C6_SubstituteIsSubclass ==
    (decl.state = "bound" /\ decl.class # decl.initial) =>
        /\ issubclass(heap, decl.class, decl.initial)
        /\ \A k \in DOMAIN heap :
              issubclass(heap, decl.initial, k)
                  => issubclass(heap, decl.class, k)

\* C6's case: a substitute for FakeADC, which is a GenericADC and a
\* QOSSTHardware.
C6_Witness ==
    /\ decl.state = "bound"
    /\ decl.class # decl.initial
    /\ decl.initial = FakeADCId
    /\ issubclass(heap, decl.class, GenericADCId)
    /\ issubclass(heap, decl.class, QOSSTHardwareId)

\* The direct sub-namespaces of a package: none for one that is not found.
SubNamespaces(package) ==
    IF RootStatus(package, world) = "missing" THEN {} ELSE DOMAIN world.subs

\* The classes deriving from QOSSTHardware, QOSSTHardware itself left out.
HardwareClasses == {GenericADCId, FakeADCId, GenericVOAId, FakeVOAId}

\* C7: the mapping list_hardware returns has the direct sub-namespaces of the
\* package as its keys, each once, and maps each to the list of exactly the
\* names the sub-namespace binds to a subclass of QOSSTHardware other than
\* QOSSTHardware, each name once; a sub-namespace without such a class is
\* mapped to the empty list.
C7_ListsExactlyTheHardware ==
    (ret.op = "list_hardware" /\ ret.outcome = "returned") =>
        /\ {ret.value[i].key : i \in DOMAIN ret.value}
               = SubNamespaces(ret.package)
        /\ \A i, j \in DOMAIN ret.value :
              ret.value[i].key = ret.value[j].key => i = j
        /\ \A i \in DOMAIN ret.value :
              LET names == ret.value[i].value
                  ns == world.subs[ret.value[i].key].ns
              IN /\ Range(names)
                       = {b.name : b \in {x \in ns : x.obj \in HardwareClasses}}
                 /\ \A k, l \in DOMAIN names : names[k] = names[l] => k = l

\* C7's case: a package with a sub-namespace binding several hardware
\* classes and a sub-namespace binding none (it binds QOSSTHardware only).
C7_Witness ==
    /\ ret.op = "list_hardware"
    /\ ret.outcome = "returned"
    /\ \E i, j \in DOMAIN ret.value :
          /\ ret.value[i].key = S_adc
          /\ Len(ret.value[i].value) = 3
          /\ ret.value[j].key = S_utils
          /\ ret.value[j].value = <<>>

\* The lines of a text: the pieces between its line feeds (the piece after
\* the last line feed included).
RECURSIVE SplitLines(_, _)
SplitLines(text, line) ==
    IF text = <<>> THEN <<line>>
    ELSE IF Head(text) = "\n" THEN <<line>> \o SplitLines(Tail(text), <<>>)
    ELSE SplitLines(Tail(text), Append(line, Head(text)))

\* The lines of the sections claimed for the items from i on: for an item
\* with a non-empty list its name, as many dashes as the name has characters,
\* one "* name" line per listed name, and an empty line; nothing otherwise.
RECURSIVE SectionLines(_, _)
SectionLines(items, i) ==
    IF i > Len(items) THEN <<>>
    ELSE (IF Len(items[i].value) > 0
          THEN <<items[i].key, [c \in 1..Len(items[i].key) |-> "-"]>>
               \o [n \in 1..Len(items[i].value) |->
                      <<"*", " ">> \o items[i].value[n]]
               \o << <<>> >>
          ELSE <<>>)
         \o SectionLines(items, i + 1)

\* C8: the text list_hardware_str returns is its header followed, for each
\* sub-namespace whose list from list_hardware is non-empty and in the order
\* of that mapping, by a section made of the sub-namespace name, an underline
\* of the same length and one "* name" line per listed name in list order; a
\* sub-namespace whose list is empty adds nothing.
C8_TextHasOneSectionPerNonEmpty ==
    (ret.op = "list_hardware_str" /\ ret.outcome = "returned") =>
        SplitLines(ret.value, <<>>)
            = <<HeaderPrefix \o ret.package, <<>> >>
              \o SectionLines(list_hardware(ret.package, world, heap).value,
                              1)
              \o << <<>> >>

\* C8's case: a text for a package with a sub-namespace whose list is empty
\* and one whose list has two names or more.
C8_Witness ==
    /\ ret.op = "list_hardware_str"
    /\ ret.outcome = "returned"
    /\ LET items == list_hardware(ret.package, world, heap).value IN
       \E i, j \in DOMAIN items :
          /\ items[i].value = <<>>
          /\ Len(items[j].value) >= 2

\* C9: for a package that cannot be located list_hardware returns the empty
\* mapping and list_hardware_str its header alone; neither raises.
C9_MissingPackageGivesEmpty ==
    (/\ ret.op \in {"list_hardware", "list_hardware_str"}
     /\ RootStatus(ret.package, world) = "missing") =>
        /\ ret.outcome = "returned"
        /\ ret.op = "list_hardware" => ret.value = <<>>
        /\ ret.op = "list_hardware_str" =>
              ret.value = HeaderPrefix \o ret.package \o <<"\n", "\n">>

\* C9's case: list_hardware_str returned for a package that does not exist.
C9_Witness ==
    /\ ret.op = "list_hardware_str"
    /\ RootStatus(ret.package, world) = "missing"
    /\ ret.outcome = "returned"

\* C10 (as claimed): list_hardware never lets an import or lookup failure
\* through: it returns also when importing a sub-namespace fails or the
\* package has no file location.
C10_NeverPropagates == ret.op = "list_hardware" => ret.outcome = "returned"

\* Importing some sub-namespace of the package fails.
SomeImportFails ==
    \E sub \in DOMAIN world.subs : world.subs[sub].import = "fails"

\* C10 (amended): list_hardware returns the empty mapping without raising
\* only for a package that cannot be located; it raises exactly when the
\* package has no file location or importing one of its sub-namespaces
\* fails.
C10_OnlyMissingPackageIsSwallowed ==
    ret.op = "list_hardware" =>
        /\ ret.outcome = "raised" <=>
              \/ RootStatus(ret.package, world) = "nofile"
              \/ /\ RootStatus(ret.package, world) = "ok"
                 /\ SomeImportFails
        /\ RootStatus(ret.package, world) = "missing" =>
              (ret.outcome = "returned" /\ ret.value = <<>>)

\* C10's case: the package is found and has a file location, importing one
\* of its sub-namespaces fails, and list_hardware raised.
C10_Witness ==
    /\ ret.op = "list_hardware"
    /\ RootStatus(ret.package, world) = "ok"
    /\ SomeImportFails
    /\ ret.outcome = "raised"

\* The abstract contract classes: the classes other than QOSSTHardware that
\* still have abstract methods.
AbstractContracts ==
    {c \in DOMAIN heap \ {QOSSTHardwareId} : heap[c].ctor.kind = "abstract"}

\* C11 (as claimed): every name list_hardware reports is bound to a class
\* that can be instantiated; no abstract contract class is listed.
C11_OnlyConcreteListed ==
    (ret.op = "list_hardware" /\ ret.outcome = "returned") =>
        \A i \in DOMAIN ret.value :
            \A b \in world.subs[ret.value[i].key].ns :
                b.name \in Range(ret.value[i].value)
                    => b.obj \notin AbstractContracts

\* C11 (amended): list_hardware reports every name bound to a class deriving
\* from QOSSTHardware other than QOSSTHardware, abstract or not: an abstract
\* contract class bound in a sub-namespace is listed under it, next to the
\* concrete classes, and QOSSTHardware is the only class left out.
C11_AbstractContractsListed ==
    (ret.op = "list_hardware" /\ ret.outcome = "returned") =>
        \A i \in DOMAIN ret.value :
            \A b \in world.subs[ret.value[i].key].ns :
                /\ b.obj \in AbstractContracts
                       => b.name \in Range(ret.value[i].value)
                /\ (b.obj # NotAClass /\ heap[b.obj].ctor.kind = "plain")
                       => b.name \in Range(ret.value[i].value)
                /\ b.obj = QOSSTHardwareId
                       => b.name \notin Range(ret.value[i].value)

\* C11's case: adc binds the abstract GenericADC and the concrete FakeADC,
\* and list_hardware returned both names for it.
C11_Witness ==
    /\ ret.op = "list_hardware"
    /\ ret.outcome = "returned"
    /\ \E i \in DOMAIN ret.value :
          /\ ret.value[i].key = S_adc
          /\ S_GenericADC \in Range(ret.value[i].value)
          /\ S_FakeADC \in Range(ret.value[i].value)

\* C12: whatever was called before, FakeVoltMeter.get_voltage and
\* FakeAmpereMeter.get_current return 0.0, FakePowerMeter.read returns 1e-6
\* and FakePolarisationController.get_position returns 0.0 for each of the
\* three channels.
C12_ReadsReturnTheirConstant ==
    /\ ret.op \in {"FakeVoltMeter.get_voltage", "FakeAmpereMeter.get_current",
                   "FakePolarisationController.get_position"} =>
          (ret.outcome = "returned" /\ ret.value = Some(0))
    /\ ret.op = "FakePowerMeter.read" =>
          (ret.outcome = "returned" /\ ret.value = Some(Decimal(1, -6)))

\* C12's case: get_position was read for a channel right after a move of
\* the controller.
C12_Witness ==
    /\ ret.op = "FakePolarisationController.get_position"
    /\ ret.args = Some("QWP_2")
    /\ ret.prev.op \in {"FakePolarisationController.move_by",
                        "FakePolarisationController.move_to"}
    /\ ret.value = Some(0)

\* C13: FakeSwitch.read_state returns 0 whatever open, close and set_state
\* calls came before.
C13_ReadStateIsZero ==
    ret.op = "FakeSwitch.read_state" =>
        (ret.outcome = "returned" /\ ret.value = Some(0))

\* C13's case: read_state right after set_state(5).
C13_Witness ==
    /\ ret.op = "FakeSwitch.read_state"
    /\ ret.prev.op = "FakeSwitch.set_state"
    /\ ret.prev.args = Some(5)
    /\ ret.value = Some(0)

C15_OneSequencePerChannel ==
    /\ (ret.op = "FakeADC.get_data" /\ ret.outcome = "returned") =>
          Len(ret.value) = Len(adc.channels)
    /\ (ret.op = "LoadingADC.get_data" /\ ret.outcome = "returned") =>
          Len(ret.value) = Len(ladc.channels)

\* C16: once set_acquisition_parameters has set acquisition_time t and
\* target_rate r, get_data on an instance with n channels returns n sequences,
\* each of as many samples as the integer part of t * r (t counted in half
\* seconds: 2 * length <= t * r < 2 * length + 2); right after a
\* set_acquisition_parameters giving both keys, t and r are the values given.
C16_SequencesOfIntegerPartLength ==
    /\ (ret.op = "FakeADC.get_data" /\ adc.has_params) =>
          /\ ret.outcome = "returned"
          /\ Len(ret.value) = Len(adc.channels)
          /\ \A c \in DOMAIN ret.value :
                /\ 2 * Len(ret.value[c])
                       <= adc.acquisition_time * adc.target_rate
                /\ adc.acquisition_time * adc.target_rate
                       < 2 * Len(ret.value[c]) + 2
    /\ (/\ ret.op = "FakeADC.get_data"
        /\ ret.prev.op = "FakeADC.set_acquisition_parameters"
        /\ {"acquisition_time", "target_rate"} \subseteq DOMAIN ret.prev.args)
          => /\ adc.acquisition_time = ret.prev.args.acquisition_time
             /\ adc.target_rate = ret.prev.args.target_rate

\* C16's case: two channels, acquisition_time 1.0 s and target_rate 1 Hz
\* just set, and get_data returned two sequences of one sample.
C16_Witness ==
    /\ ret.op = "FakeADC.get_data"
    /\ ret.prev.op = "FakeADC.set_acquisition_parameters"
    /\ Len(adc.channels) = 2
    /\ adc.acquisition_time = 2
    /\ adc.target_rate = 1
    /\ ret.outcome = "returned"
    /\ \A c \in 1..2 : Len(ret.value[c]) = 1

\* C17: get_data(var=0) returns sequences whose samples are all 0.0,
\* whatever the generator draws, for every channel and every length.
C17_ZeroVarianceGivesZeros ==
    (/\ ret.op = "FakeADC.get_data"
     /\ ret.outcome = "returned"
     /\ "var" \in DOMAIN ret.args
     /\ ret.args["var"] = 0) =>
        \A c \in DOMAIN ret.value :
            \A i \in DOMAIN ret.value[c] : ret.value[c][i] = 0

\* C17's case: get_data(var=0) returned two sequences that are not empty.
C17_Witness ==
    /\ ret.op = "FakeADC.get_data"
    /\ ret.outcome = "returned"
    /\ "var" \in DOMAIN ret.args
    /\ ret.args["var"] = 0
    /\ Len(ret.value) = 2
    /\ \A c \in 1..2 : Len(ret.value[c]) >= 1

\* C18: with N paths configured, a get_data that follows a trigger that
\* returned gives N sequences, the i-th being the content of the file at the
\* i-th path, unchanged.
C18_GetDataReturnsLoadedFiles ==
    (/\ ret.op = "LoadingADC.get_data"
     /\ ret.prev.op = "LoadingADC.trigger"
     /\ ret.prev.outcome = "returned") =>
        /\ ret.outcome = "returned"
        /\ Len(ret.value) = Len(ladc.paths)
        /\ \A i \in DOMAIN ret.value :
              ret.value[i] = FileContent(ladc.paths[i])

\* C18's case: two paths, q.npy before i.npy, and get_data right after
\* trigger returned their contents in that order.
C18_Witness ==
    /\ ret.op = "LoadingADC.get_data"
    /\ ret.prev.op = "LoadingADC.trigger"
    /\ ladc.paths = <<"q.npy", "i.npy">>
    /\ ret.outcome = "returned"
    /\ ret.value = << <<3>>, <<1, 2>> >>

\* The abstract operations the declared driver class leaves undefined.
Unimplemented == abstractmethods(decl.initial) \ decl.defined

\* C19 (as claimed): a driver class that leaves an abstract operation of its
\* contract undefined is rejected when it is declared.
C19_DeclarationRejected ==
    (decl.state \in {"defined", "rejected"} /\ Unimplemented # {}) =>
        decl.state = "rejected"

\* C19 (amended): declaring a driver class never fails, whatever it leaves
\* undefined; constructing it raises TypeError (the class is abstract)
\* whenever an abstract operation of the contract is left undefined, for any
\* arguments.
C19_RejectedAtConstruction ==
    /\ ret.op = "class" => (ret.outcome = "returned" /\ decl.state = "defined")
    /\ decl.state # "rejected"
    /\ (decl.state = "defined" /\ Unimplemented # {}
           /\ ret.op = "construct") =>
          /\ ret.outcome = "raised"
          /\ ret.exc = "TypeError"
          /\ ret.msg = <<"Can't instantiate abstract class ", "Driver">>

\* C19's case: a driver of the ADC contract defining everything but get_data
\* was declared, and constructing it with two arguments raised.
C19_Witness ==
    /\ decl.state = "defined"
    /\ decl.initial = GenericADCId
    /\ Unimplemented = {"get_data"}
    /\ ret.op = "construct"
    /\ ret.args.npos = 2
    /\ ret.outcome = "raised"

\* C20: set_acquisition_parameters of FakeADC sets acquisition_time and
\* target_rate, and that of LoadingADC sets paths, to the value given under
\* that key in the call, or to the default (0, 0, the empty list) when the
\* call does not give the key, whatever earlier calls had set; any other key
\* changes nothing of this.
C20_MissingKeysTakeDefaults ==
    /\ ret.op = "FakeADC.set_acquisition_parameters" =>
          /\ ret.outcome = "returned"
          /\ adc.has_params
          /\ adc.acquisition_time
                = (IF "acquisition_time" \in DOMAIN ret.args
                   THEN ret.args["acquisition_time"] ELSE 0)
          /\ adc.target_rate
                = (IF "target_rate" \in DOMAIN ret.args
                   THEN ret.args["target_rate"] ELSE 0)
    /\ ret.op = "LoadingADC.set_acquisition_parameters" =>
          /\ ret.outcome = "returned"
          /\ ladc.has_paths
          /\ ladc.paths = (IF "paths" \in DOMAIN ret.args
                           THEN ret.args["paths"] ELSE <<>>)

\* C20's case: a call giving acquisition_time 1.0 s, then a call giving
\* only the unknown key gain: acquisition_time is back to 0.
C20_Witness ==
    /\ ret.op = "FakeADC.set_acquisition_parameters"
    /\ DOMAIN ret.args = {"gain"}
    /\ ret.prev.op = "FakeADC.set_acquisition_parameters"
    /\ "acquisition_time" \in DOMAIN ret.prev.args
    /\ ret.prev.args["acquisition_time"] = 2
    /\ adc.acquisition_time = 0

\* C21: how a construction of the guarded class ends depends on the
\* environment the declaration ran in, never on the environment of the
\* construction: after a declaration with a name missing every construction
\* raises the substitute's TypeError, also once every name can be found;
\* after a declaration with every name found every construction ends as that
\* of the undecorated class, also once a name cannot be found any more.
C21_FixedAtDeclaration ==
    (decl.state = "bound" /\ ret.op = "construct") =>
        /\ MissingAtDecl # {} =>
              /\ ret.outcome = "raised"
              /\ ret.exc = "TypeError"
              /\ ret.msg = ReplacementMessage(heap[decl.initial].name,
                                              decl.modules)
        /\ MissingAtDecl = {} =>
              LET r == Instantiate(InitialHeap, decl.initial, ret.args) IN
              /\ ret.outcome = r.outcome
              /\ ret.exc = r.exc

\* C21's case: a name was missing at the declaration, every name could be
\* found when the class was constructed, and the construction raised.
C21_Witness ==
    /\ decl.state = "bound"
    /\ MissingAtDecl # {}
    /\ ret.op = "construct"
    /\ Range(decl.modules) \subseteq ret.env
    /\ ret.outcome = "raised"

\* C22: LoadingADC.get_data returns the data of the most recent trigger that
\* loaded: a trigger that returns replaces the data by the contents of the
\* files at the paths set then; set_acquisition_parameters, whatever paths
\* it gives, and the operations that do nothing leave the data as it is, as
\* does a trigger that raises; get_data returns the data and leaves it as it
\* is, so that get_data calls in a row return the same sequences.
C22_GetDataReplaysLastLoad ==
    [][/\ (ret'.op = "LoadingADC.get_data" /\ ladc.has_data) =>
             /\ ret'.outcome = "returned"
             /\ ret'.value = ladc.data
             /\ ladc' = ladc
       /\ (ret'.op = "LoadingADC.trigger" /\ ret'.outcome = "returned") =>
             /\ ladc'.has_data
             /\ ladc'.data = [i \in 1..Len(ladc.paths) |->
                                 FileContent(ladc.paths[i])]
       /\ ~(ret'.op = "LoadingADC.trigger" /\ ret'.outcome = "returned") =>
             /\ ladc'.has_data = ladc.has_data
             /\ ladc'.data = ladc.data]_vars

\* C22's case: after a trigger that loaded i.npy alone the paths were set to
\* q.npy and i.npy, and the get_data that followed returned the content of
\* i.npy alone.
C22_Witness ==
    /\ ret.op = "LoadingADC.get_data"
    /\ ret.prev.op = "LoadingADC.set_acquisition_parameters"
    /\ ladc.paths = <<"q.npy", "i.npy">>
    /\ ret.outcome = "returned"
    /\ ret.value = << <<1, 2>> >>

\* C23: a FakeDAC starts with emission False and data None; start_emission
\* makes emission True and stop_emission makes it False, both leaving data
\* as it is; load_data makes data its argument and leaves emission as it is;
\* no other operation changes either. So emission is True exactly when
\* start_emission was called with no stop_emission since, and data is the
\* argument of the most recent load_data.
C23_EmissionAndDataFollowTheCalls ==
    /\ dac = [emission |-> FALSE, data |-> None]
    /\ [][/\ ret'.op = "FakeDAC.start_emission" =>
               (dac'.emission = TRUE /\ dac'.data = dac.data)
          /\ ret'.op = "FakeDAC.stop_emission" =>
               (dac'.emission = FALSE /\ dac'.data = dac.data)
          /\ ret'.op = "FakeDAC.load_data" =>
               (dac'.data = ret'.args /\ dac'.emission = dac.emission)
          /\ (ret'.op \notin {"FakeDAC.start_emission",
                               "FakeDAC.stop_emission", "FakeDAC.load_data"})
                => (dac' = dac)]_vars

\* C23's case: data was loaded while the DAC was emitting, right after
\* start_emission, and the DAC still emits.
C23_Witness ==
    /\ ret.op = "FakeDAC.load_data"
    /\ ret.prev.op = "FakeDAC.start_emission"
    /\ dac.data = Some(<<<<1>>, <<3>>>>)
    /\ dac.emission = TRUE

\* The open and close calls of the devices that hold attributes.
LifecycleCalls ==
    {"FakeDAC.open", "FakeDAC.close", "FakeVOA.open", "FakeVOA.close",
     "FakeADC.open", "FakeADC.close"}

\* C24: open and close of a fake device return and change no attribute of
\* any device: emission and data of the FakeDAC, value of the FakeVOA,
\* channels, acquisition_time and target_rate of the FakeADC are after the
\* call what they were before, however often and in whatever order open and
\* close are called.
C24_OpenCloseChangeNothing ==
    [][ret'.op \in LifecycleCalls =>
          /\ ret'.outcome = "returned"
          /\ dac' = dac
          /\ voa' = voa
          /\ adc' = adc
          /\ ladc' = ladc]_vars

\* C24's case: a second close in a row of an emitting FakeDAC holding data,
\* the FakeVOA and the FakeADC having been set to other values than their
\* initial ones.
C24_Witness ==
    /\ ret.op = "FakeDAC.close"
    /\ ret.prev.op = "FakeDAC.close"
    /\ dac.emission = TRUE
    /\ dac.data # None
    /\ voa.value # 0
    /\ adc.has_params
    /\ adc.acquisition_time # 0
    /\ adc.channels # <<>>

\* What the _convert of an instance's class makes of a sequence: the
\* sequence itself, or its samples times the calibration for an instance of
\* a class that overrides the hook.
Converted(self, data) ==
    IF "calibration" \in DOMAIN self
    THEN [k \in 1..Len(data) |-> self.calibration * data[k]]
    ELSE data

\* C25: _convert is the identity unless a deriving class overrides it, and
\* what get_data returns is, sequence by sequence and in order, what
\* _convert makes of the raw sequence, applied once: for LoadingADC the
\* loaded arrays, for FakeADC the drawn samples (each the square root of var
\* times a standard draw).
C25_ConvertedExactlyOnce ==
    /\ (ret.op = "LoadingADC.get_data" /\ ret.outcome = "returned") =>
          /\ Len(ret.value) = Len(ladc.data)
          /\ \A i \in DOMAIN ret.value :
                ret.value[i] = Converted(ladc, ladc.data[i])
          /\ "calibration" \notin DOMAIN ladc => ret.value = ladc.data
    /\ (ret.op = "FakeADC.get_data" /\ ret.outcome = "returned") =>
          LET scale == IF "var" \in DOMAIN ret.args
                       THEN Sqrt(ret.args["var"]) ELSE 1
          IN \A c \in DOMAIN ret.value :
                \E raw \in [1..Len(ret.value[c]) ->
                                {scale * z : z \in ZValues}] :
                    ret.value[c] = Converted(adc, raw)

\* C25's case: a LoadingADC of a class overriding _convert returned the
\* loaded i.npy with every sample converted once.
C25_Witness ==
    /\ ret.op = "LoadingADC.get_data"
    /\ ret.outcome = "returned"
    /\ "calibration" \in DOMAIN ladc
    /\ ladc.data = << <<1, 2>> >>
    /\ ret.value = << <<2, 4>> >>

\* What list_hardware returns for the package of the guarded class when
\* every dependency is available: the sub-namespace with the names it binds
\* to hardware classes, the guarded class under its declared name.
ListedWhenAvailable ==
    IF decl.initial = FakeADCId
    THEN <<[key |-> S_adc, value |-> <<S_FakeADC, S_GenericADC>>]>>
    ELSE <<[key |-> S_voa, value |-> <<S_FakeVOA>>]>>

\* C26 (as claimed): list_hardware reports a guarded class under its
\* sub-namespace and its declared name whether or not its dependencies are
\* available: it returns what it returns when they all are.
C26_GuardedClassStillListed ==
    ret.op = "list_hardware" =>
        (ret.outcome = "returned" /\ ret.value = ListedWhenAvailable)

=============================================================================
